---- MODULE Spec2Model ----
(***************************************************************************)
(* Model of pass.py (password-finder): the option loading and pattern      *)
(* building of __main__, the bounded walk of start_digging, the per-file   *)
(* evaluation of check_file_handler, the reporter and the process exit.    *)
(* Text is modelled as sequences of one-character strings; a line keeps    *)
(* its trailing "\n" exactly as the file iterator yields it.               *)
(***************************************************************************)
EXTENDS Integers, Sequences, FiniteSets, TLC

(* ------------------------------ bounds --------------------------------- *)
\* longest walk (number of files os.walk yields) explored
MaxTree == 5
\* largest explicit --max-checks explored (besides the default)
MaxChecks == 2
\* the small --max-length explored (besides the default)
TightLength == 21

(* ------------------------- program constants --------------------------- *)
\* sys.maxsize, the default of --max-checks, clipped to the integer range
\* of the checker; it is only ever compared with the file counter.
maxsize == 2147483647
\* default of --max-length
DefaultMaxLength == 1000

W_token == <<"t", "o", "k", "e", "n">>
W_oauth == <<"o", "a", "u", "t", "h">>
W_secret == <<"s", "e", "c", "r", "e", "t">>
W_pass == <<"p", "a", "s", "s">>
W_password == <<"p", "a", "s", "s", "w", "o", "r", "d">>
W_senha == <<"s", "e", "n", "h", "a">>
DEFAULT_BAD_WORDS == <<W_token, W_oauth, W_secret, W_pass, W_password, W_senha>>
\* the two structural tails: "str" is  *[:=] *["'][^"']{4,}["']  and
\* "url" is [:=][^"'& ,;{()<\n]{4,}
DEFAULT_ANALYZERS == <<"str", "url">>

(* --------------------------- character classes ------------------------- *)
LowerLetters == <<"a", "b", "c", "d", "e", "f", "g", "h", "i", "j", "k", "l", "m", "n", "o", "p", "q", "r", "s", "t", "u", "v", "w", "x", "y", "z">>
UpperLetters == <<"A", "B", "C", "D", "E", "F", "G", "H", "I", "J", "K", "L", "M", "N", "O", "P", "Q", "R", "S", "T", "U", "V", "W", "X", "Y", "Z">>
Digits == {"0", "1", "2", "3", "4", "5", "6", "7", "8", "9"}
Range(s) == {s[i] : i \in DOMAIN s}
\* [a-zA-Z_]
IdStart == Range(LowerLetters) \cup Range(UpperLetters) \cup {"_"}
\* [a-zA-Z0-9_]
IdChar == IdStart \cup Digits
\* [:=]
ColonEq == {":", "="}
\* ["']
Quotes == {"\"", "'"}
\* the characters the url tail refuses: ["'& ,;{()<\n]
UrlStop == {"\"", "'", "&", " ", ",", ";", "{", "(", ")", "<", "\n"}
\* what str.strip() removes
Whitespace == {" ", "\n", "\t", "\r"}

\* str.upper() / str.lower() of one character
upper(c) == IF \E i \in 1..26 : LowerLetters[i] = c
            THEN UpperLetters[CHOOSE i \in 1..26 : LowerLetters[i] = c] ELSE c
lower(c) == IF \E i \in 1..26 : UpperLetters[i] = c
            THEN LowerLetters[CHOOSE i \in 1..26 : UpperLetters[i] = c] ELSE c

(* ------------------------------ PathFilter ----------------------------- *)
\* fnmatch.fnmatch on a POSIX host: the whole name must match the glob,
\* "*" is any run of characters, "?" is any one character.
RECURSIVE GlobFrom(_, _, _, _)
GlobFrom(pat, i, name, j) ==
    IF i > Len(pat) THEN j > Len(name)
    ELSE IF pat[i] = "*"
         THEN \E k \in j..(Len(name) + 1) : GlobFrom(pat, i + 1, name, k)
         ELSE /\ j <= Len(name)
              /\ (pat[i] = "?" \/ pat[i] = name[j])
              /\ GlobFrom(pat, i + 1, name, j + 1)

fnmatch(name, pat) == GlobFrom(pat, 1, name, 1)

\* variant: a path that matches an include glob is accepted at once
can_analyze_file_IncludeWins(include_paths, exclude_paths, path) ==
    IF include_paths # <<>>
    THEN \E i \in DOMAIN include_paths : fnmatch(path, include_paths[i])
    ELSE ~(\E i \in DOMAIN exclude_paths : fnmatch(path, exclude_paths[i]))

can_analyze_file(include_paths, exclude_paths, path) ==
    IF include_paths # <<>> /\ ~(\E i \in DOMAIN include_paths : fnmatch(path, include_paths[i]))
    THEN FALSE
    ELSE IF exclude_paths # <<>> /\ (\E i \in DOMAIN exclude_paths : fnmatch(path, exclude_paths[i]))
         THEN FALSE
         ELSE TRUE

(* --------------------------- SuppressionFilter ------------------------- *)
\* A compiled suppression pattern is a sequence of tokens: "^" (start of
\* text), ".*" (any run without a newline) or a literal character.
\* re.Pattern.match: the pattern must match starting at position 0; it
\* need not reach the end of the line.
RECURSIVE ReFrom(_, _, _, _)
ReFrom(pat, i, line, j) ==
    IF i > Len(pat) THEN TRUE
    ELSE IF pat[i] = "^" THEN j = 1 /\ ReFrom(pat, i + 1, line, j)
    ELSE IF pat[i] = ".*"
         THEN \E k \in j..(Len(line) + 1) :
                  /\ \A m \in j..(k - 1) : line[m] # "\n"
                  /\ ReFrom(pat, i + 1, line, k)
         ELSE /\ j <= Len(line)
              /\ line[j] = pat[i]
              /\ ReFrom(pat, i + 1, line, j + 1)

re_match(pattern, line) == ReFrom(pattern, 1, line, 1)

\* variant: only the first pattern is consulted
check_exclude_pattern_FirstOnly(checkers, line) ==
    checkers # <<>> /\ re_match(checkers[1], line)

check_exclude_pattern(checkers, line) ==
    \E i \in DOMAIN checkers : re_match(checkers[i], line)

(* ------------------ KeywordPatternBuilder / DetectorCompiler ----------- *)
\* one keyword: a character class [Xx] per position
WordRule(word) == [i \in DOMAIN word |-> {upper(word[i]), lower(word[i])}]

\* the alternation, in input order; '|'.join of no rule is the empty
\* pattern, which matches the empty string
build_bad_words(words) == [i \in DOMAIN words |-> WordRule(words[i])]

build_regex_analyzers(rules, bad_words) ==
    [i \in DOMAIN rules |-> [bad_words |-> bad_words, rule |-> rules[i]]]

(* ------------------------------ detectors ------------------------------ *)
\* the alternatives of (?:bad_words): the empty pattern is one empty alternative
Alternatives(bad_words) == IF bad_words = <<>> THEN <<<<>>>> ELSE bad_words

\* position after one alternative matched at s, or 0
RuleEnd(rule, line, s) ==
    IF /\ s + Len(rule) - 1 <= Len(line)
       /\ \A i \in DOMAIN rule : line[s + i - 1] \in rule[i]
    THEN s + Len(rule) ELSE 0

\* positions where (?:[a-zA-Z_][a-zA-Z0-9_]*)? may stop when it starts at e
SuffixStops(line, e) ==
    {e} \cup {p \in (e + 1)..(Len(line) + 1) :
                 /\ line[e] \in IdStart
                 /\ \A j \in (e + 1)..(p - 1) : line[j] \in IdChar}

\* first position at or after p that is not a blank (Len(line) + 1 if none)
SkipSpaces(line, p) ==
    CHOOSE q \in p..(Len(line) + 1) :
        /\ q > Len(line) \/ line[q] # " "
        /\ \A m \in p..(q - 1) : line[m] = " "

\* first position at or after p holding a character of set stop (Len(line) + 1 if none)
FirstOf(line, p, stop) ==
    CHOOSE q \in p..(Len(line) + 1) :
        /\ q > Len(line) \/ line[q] \in stop
        /\ \A m \in p..(q - 1) : line[m] \notin stop

\* position after the structural tail matched at p, or 0
TailEnd(rule, line, p) ==
    IF rule = "str"
    THEN LET a == SkipSpaces(line, p)
             b == SkipSpaces(line, a + 1)
             c == FirstOf(line, b + 1, Quotes)
         IN  IF /\ a <= Len(line) /\ line[a] \in ColonEq
                /\ b <= Len(line) /\ line[b] \in Quotes
                /\ c <= Len(line)
                /\ c - b - 1 >= 4
             THEN c + 1 ELSE 0
    ELSE LET q == FirstOf(line, p + 1, UrlStop)
         IN  IF /\ p <= Len(line) /\ line[p] \in ColonEq
                /\ q - p - 1 >= 4
             THEN q ELSE 0

\* position after the match the regex engine finds at start s, or 0:
\* alternatives are tried in order, the identifier suffix longest first
MatchEnd(an, line, s) ==
    LET alts == Alternatives(an.bad_words)
        Good(k) == IF RuleEnd(alts[k], line, s) = 0 THEN {}
                   ELSE {p \in SuffixStops(line, RuleEnd(alts[k], line, s)) :
                            TailEnd(an.rule, line, p) # 0}
        Ks == {k \in DOMAIN alts : Good(k) # {}}
    IN  IF Ks = {} THEN 0
        ELSE LET k0 == CHOOSE k \in Ks : \A m \in Ks : k <= m
                 p0 == CHOOSE p \in Good(k0) : \A m \in Good(k0) : p >= m
             IN  TailEnd(an.rule, line, p0)

\* re.Pattern.findall: the non-overlapping matches, left to right
RECURSIVE FindFrom(_, _, _)
FindFrom(an, line, s) ==
    IF s > Len(line) + 1 THEN <<>>
    ELSE LET e == MatchEnd(an, line, s)
         IN  IF e = 0 THEN FindFrom(an, line, s + 1)
             ELSE <<SubSeq(line, s, e - 1)>>
                  \o FindFrom(an, line, IF e = s THEN s + 1 ELSE e)

findall(an, line) == FindFrom(an, line, 1)

\* str.strip()
strip(line) ==
    LET keep == {i \in DOMAIN line : line[i] \notin Whitespace}
    IN  IF keep = {} THEN <<>>
        ELSE SubSeq(line, CHOOSE i \in keep : \A m \in keep : i <= m,
                          CHOOSE i \in keep : \A m \in keep : i >= m)

(* ------------------------------ the disk ------------------------------- *)
L_assign == <<"p", "a", "s", "s", " ", "=", " ", "\"", "a", "b", "c", "d", "\"", "\n">>
L_url == <<"t", "o", "k", "e", "n", "=", "a", "b", "c", "d", "e", "f", "1", "2", "3", "\n">>
L_both == <<"p", "a", "s", "s", "=", "a", "b", "c", "d", " ", "s", "e", "c", "r", "e", "t", "=", "\"", "w", "x", "y", "z", "\"", "\n">>
L_twice == <<"p", "a", "s", "s", "=", "a", "b", "c", "d", " ", "t", "o", "k", "e", "n", "=", "e", "f", "g", "h", "\n">>
L_comment == <<"#", " ", "p", "a", "s", "s", "=", "\"", "a", "b", "c", "d", "\"", "\n">>
L_plain == <<"x", " ", "=", " ", "1", "\n">>
L_short == <<"p", "a", "s", "s", " ", "=", " ", "\"", "a", "b", "c", "\"", "\n">>
L_mixed == <<" ", " ", "P", "a", "s", "s", "W", "o", "r", "d", "=", "'", "w", "x", "y", "z", "1", "'", "\n">>
L_tail == <<"s", "e", "n", "h", "a", ":", "a", "b", "c", "d">>
L_nested == <<"p", "a", "s", "s", "=", "p", "a", "s", "s", "=", "\"", "a", "b", "c", "d", "\"", "\n">>

D_app == <<"a", "p", "p">>
D_lib == <<"a", "p", "p", "/", "l", "i", "b">>
N_main == <<"m", "a", "i", "n", ".", "p", "y">>
N_test_main == <<"t", "e", "s", "t", "_", "m", "a", "i", "n", ".", "p", "y">>
N_notes == <<"n", "o", "t", "e", "s", ".", "t", "x", "t">>
N_cfg == <<"c", "f", "g", ".", "p", "y">>
N_test_data == <<"t", "e", "s", "t", "_", "d", "a", "t", "a", ".", "t", "x", "t">>
N_util == <<"u", "t", "i", "l", ".", "p", "y">>
N_blob == <<"b", "l", "o", "b", ".", "b", "i", "n">>

\* The files in the order os.walk yields them.  A file that is not valid
\* text raises UnicodeDecodeError after the iterator has yielded its first
\* `yielded` lines (the decoder works on buffered chunks, so lines of the
\* chunks before the offending one are delivered first).
Files == <<
    [root |-> D_app, file |-> N_main, lines |-> <<L_assign, L_plain, L_twice>>, undecodable |-> FALSE, yielded |-> 0],
    [root |-> D_app, file |-> N_test_main, lines |-> <<L_url, L_comment>>, undecodable |-> FALSE, yielded |-> 0],
    [root |-> D_app, file |-> N_notes, lines |-> <<L_both, L_short, L_nested>>, undecodable |-> FALSE, yielded |-> 0],
    [root |-> D_app, file |-> N_cfg, lines |-> <<L_comment, L_mixed, L_tail>>, undecodable |-> FALSE, yielded |-> 0],
    [root |-> D_app, file |-> N_test_data, lines |-> <<L_url, L_plain>>, undecodable |-> TRUE, yielded |-> 1],
    [root |-> D_lib, file |-> N_blob, lines |-> <<L_assign>>, undecodable |-> TRUE, yielded |-> 0],
    [root |-> D_lib, file |-> N_util, lines |-> <<L_plain>>, undecodable |-> FALSE, yielded |-> 0] >>

\* os.path.join(root, file) on a POSIX host
join(root, file) == root \o <<"/">> \o file

PathOf(f) == join(Files[f].root, Files[f].file)
Disk(path) == Files[CHOOSE f \in DOMAIN Files : PathOf(f) = path]

(* ------------------------------ LineEvaluator -------------------------- *)
\* variant: one Finding per match instead of one per analyzer
RECURSIVE LineFindings_EveryMatch(_, _, _, _, _, _)
LineFindings_EveryMatch(path, i, line, analyzers, patterns, k) ==
    IF k > Len(analyzers) THEN <<>>
    ELSE LET data == findall(analyzers[k], line)
         IN  (IF data # <<>> /\ ~check_exclude_pattern(patterns, line)
              THEN [j \in DOMAIN data |->
                       [file |-> path, target |-> data[j], line |-> i, string |-> strip(line)]]
              ELSE <<>>)
             \o LineFindings_EveryMatch(path, i, line, analyzers, patterns, k + 1)

\* the Findings of one line: every analyzer runs, in order
RECURSIVE LineFindings(_, _, _, _, _, _)
LineFindings(path, i, line, analyzers, patterns, k) ==
    IF k > Len(analyzers) THEN <<>>
    ELSE LET data == findall(analyzers[k], line)
         IN  (IF data # <<>> /\ ~check_exclude_pattern(patterns, line)
              THEN <<[file |-> path, target |-> data[1], line |-> i, string |-> strip(line)]>>
              ELSE <<>>)
             \o LineFindings(path, i, line, analyzers, patterns, k + 1)

\* the loop over the lines the iterator yields; i is the enumerate() index
RECURSIVE LinesFrom(_, _, _, _, _, _)
LinesFrom(path, lines, i, max_length, analyzers, patterns) ==
    IF i >= Len(lines) THEN <<>>
    ELSE (IF Len(lines[i + 1]) > max_length THEN <<>>
          ELSE LineFindings(path, i, lines[i + 1], analyzers, patterns, 1))
         \o LinesFrom(path, lines, i + 1, max_length, analyzers, patterns)

\* the lines the iterator yields before the file ends or decoding fails
Yielded(f) == IF f.undecodable THEN SubSeq(f.lines, 1, f.yielded) ELSE f.lines

\* UnicodeDecodeError is caught after the loop has appended to result,
\* and result is returned either way
check_file_handler(path, max_length, analyzers, patterns) ==
    LinesFrom(path, Yielded(Disk(path)), 0, max_length, analyzers, patterns)

(* ------------------------------ the inputs ----------------------------- *)
G_py == <<"*", ".", "p", "y">>
G_test == <<"*", "t", "e", "s", "t", "*">>
G_q == <<"a", "p", "p", "/", "?", "?", "?", ".", "p", "y">>
\* ^#.* and pass.* as read from the pattern file, newline included
R_hash == <<"^", "#", ".*", "\n">>
R_pass == <<"p", "a", "s", "s", ".*", "\n">>

IncludeLists == {<<>>, <<G_q, G_py>>}
ExcludeLists == {<<>>, <<G_test>>}
PatternLists == {<<>>, <<R_hash>>, <<R_pass, R_hash>>}
\* content of the --bad-words file; <<>> is also what an absent file leaves
WordLists == {<<>>, <<W_senha, W_token>>}
\* the walks explored: Files[first], ..., Files[first + n - 1]
Walks == {w \in [first : 1..2, n : 0..MaxTree] :
             /\ w.first + w.n - 1 <= Len(Files)
             /\ w.n = 0 => w.first = 1}
Limits == {0 - 1} \cup 0..MaxChecks \cup {maxsize}
Lengths == {TightLength, DefaultMaxLength}

Args == [walk : Walks, max_checks : Limits, max_length : Lengths, json : BOOLEAN,
         bad_words : WordLists, ignore_patterns : PatternLists,
         include_file : IncludeLists, exclude_file : ExcludeLists]

(* ------------------------------- the state ----------------------------- *)
VARIABLES
    args,             \* the parsed command line and the tree it points to
    pc,               \* position in __main__ / start_digging
    words,            \* the keyword list handed to build_bad_words
    bad_words,        \* the built alternation
    analyzers,        \* the compiled detectors
    ignore_patterns, include_paths, exclude_paths,
    pos,              \* 1-based position of the walk in the tree
    counter, result,  \* locals of start_digging, then of __main__
    accepted,         \* positions that passed can_analyze_file
    skipped,          \* positions it rejected
    examined,         \* positions handed to check_file_handler
    cut,              \* start_digging returned from inside the loop
    output,           \* what the reporter printed
    status            \* argument of sys.exit, -1 while running

vars == <<args, pc, words, bad_words, analyzers, ignore_patterns, include_paths,
          exclude_paths, pos, counter, result, accepted, skipped, examined,
          cut, output, status>>

\* path of the file at position p of the walk
PathAt(p) == PathOf(args.walk.first + p - 1)

WalkInit ==
    /\ pos = 1 /\ counter = 0 /\ result = <<>>
    /\ accepted = {} /\ skipped = {} /\ examined = {} /\ cut = FALSE
    /\ output = [kind |-> "none"] /\ status = 0 - 1

Init ==
    /\ args \in Args
    /\ pc = "load"
    /\ words = <<>> /\ bad_words = <<>> /\ analyzers = <<>>
    /\ ignore_patterns = <<>> /\ include_paths = <<>> /\ exclude_paths = <<>>
    /\ WalkInit

(* ------------------------------ __main__ -------------------------------- *)
\* lines 150-173: the four optional files are read
LoadOptions ==
    /\ pc = "load"
    /\ words' = args.bad_words
    /\ ignore_patterns' = args.ignore_patterns
    /\ include_paths' = args.include_file
    /\ exclude_paths' = args.exclude_file
    /\ pc' = "words"
    /\ UNCHANGED <<args, bad_words, analyzers, pos, counter, result, accepted,
                   skipped, examined, cut, output, status>>

\* line 176: build_bad_words(bad_words or DEFAULT_BAD_WORDS)
BuildBadWords ==
    /\ pc = "words"
    /\ bad_words' = build_bad_words(IF words # <<>> THEN words ELSE DEFAULT_BAD_WORDS)
    /\ pc' = "analyzers"
    /\ UNCHANGED <<args, words, analyzers, ignore_patterns, include_paths,
                   exclude_paths, pos, counter, result, accepted, skipped,
                   examined, cut, output, status>>

\* line 179
BuildAnalyzers ==
    /\ pc = "analyzers"
    /\ analyzers' = build_regex_analyzers(DEFAULT_ANALYZERS, bad_words)
    /\ pc' = "dig"
    /\ UNCHANGED <<args, words, bad_words, ignore_patterns, include_paths,
                   exclude_paths, pos, counter, result, accepted, skipped,
                   examined, cut, output, status>>

(* ---------------------------- start_digging ----------------------------- *)
\* variant: the walk stops as soon as the counter reaches the limit
OverLimit_AtLimit(cnt, limit) == cnt >= limit

\* line 110: the test made before the counter is incremented
OverLimit(cnt, limit) == cnt > limit

\* line 106-107: the file is rejected by the glob rules
SkipFile ==
    /\ pc = "dig" /\ pos <= args.walk.n
    /\ ~can_analyze_file(include_paths, exclude_paths, PathAt(pos))
    /\ skipped' = skipped \cup {pos}
    /\ pos' = pos + 1
    /\ UNCHANGED <<args, pc, words, bad_words, analyzers, ignore_patterns,
                   include_paths, exclude_paths, counter, result, accepted,
                   examined, cut, output, status>>

\* line 110-111: the counter is over the limit, the walk returns
HitLimit ==
    /\ pc = "dig" /\ pos <= args.walk.n
    /\ can_analyze_file(include_paths, exclude_paths, PathAt(pos))
    /\ OverLimit(counter, args.max_checks)
    /\ accepted' = accepted \cup {pos}
    /\ cut' = TRUE
    /\ pc' = "output"
    /\ UNCHANGED <<args, words, bad_words, analyzers, ignore_patterns,
                   include_paths, exclude_paths, pos, counter, result, skipped,
                   examined, output, status>>

\* line 112-115: the file is counted and analyzed
ExamineFile ==
    /\ pc = "dig" /\ pos <= args.walk.n
    /\ can_analyze_file(include_paths, exclude_paths, PathAt(pos))
    /\ ~OverLimit(counter, args.max_checks)
    /\ counter' = counter + 1
    /\ result' = result \o check_file_handler(PathAt(pos), args.max_length,
                                              analyzers, ignore_patterns)
    /\ accepted' = accepted \cup {pos}
    /\ examined' = examined \cup {pos}
    /\ pos' = pos + 1
    /\ UNCHANGED <<args, pc, words, bad_words, analyzers, ignore_patterns,
                   include_paths, exclude_paths, skipped, cut, output, status>>

\* line 117: the walk is exhausted
WalkDone ==
    /\ pc = "dig" /\ pos > args.walk.n
    /\ pc' = "output"
    /\ UNCHANGED <<args, words, bad_words, analyzers, ignore_patterns,
                   include_paths, exclude_paths, pos, counter, result, accepted,
                   skipped, examined, cut, output, status>>

(* ------------------------------- reporter ------------------------------- *)
\* line 193-194
PrintJson ==
    /\ pc = "output" /\ args.json
    /\ output' = [kind |-> "json", records |-> result]
    /\ pc' = "exit"
    /\ UNCHANGED <<args, words, bad_words, analyzers, ignore_patterns,
                   include_paths, exclude_paths, pos, counter, result, accepted,
                   skipped, examined, cut, status>>

\* line 195-197
PrintNoFile ==
    /\ pc = "output" /\ ~args.json /\ counter = 0
    /\ output' = [kind |-> "nofile", state |-> "FAILED"]
    /\ pc' = "exit"
    /\ UNCHANGED <<args, words, bad_words, analyzers, ignore_patterns,
                   include_paths, exclude_paths, pos, counter, result, accepted,
                   skipped, examined, cut, status>>

\* line 198-207
PrintReport ==
    /\ pc = "output" /\ ~args.json /\ counter # 0
    /\ output' = [kind |-> "report", records |-> result, found |-> Len(result),
                  checked |-> counter,
                  hit |-> IF counter >= args.max_checks THEN "Yes" ELSE "No",
                  state |-> IF result # <<>> THEN "FAILED" ELSE "OK"]
    /\ pc' = "exit"
    /\ UNCHANGED <<args, words, bad_words, analyzers, ignore_patterns,
                   include_paths, exclude_paths, pos, counter, result, accepted,
                   skipped, examined, cut, status>>

\* variant: a single Finding is tolerated
ExitCode_MoreThanOne(res) == IF Len(res) > 1 THEN 1 ELSE 0

\* line 210
ExitCode(res) == IF res # <<>> THEN 1 ELSE 0

Exit ==
    /\ pc = "exit"
    /\ status' = ExitCode(result)
    /\ pc' = "done"
    /\ UNCHANGED <<args, words, bad_words, analyzers, ignore_patterns,
                   include_paths, exclude_paths, pos, counter, result, accepted,
                   skipped, examined, cut, output>>

Next ==
    \/ LoadOptions \/ BuildBadWords \/ BuildAnalyzers
    \/ SkipFile \/ HitLimit \/ ExamineFile \/ WalkDone
    \/ PrintJson \/ PrintNoFile \/ PrintReport
    \/ Exit

Spec == Init /\ [][Next]_vars

(* ------------------- the engine entered with a keyword list ------------- *)
\* build_bad_words, build_regex_analyzers and start_digging called in
\* sequence with a keyword list passed as is (no default substituted).
EngineWordLists == {<<>>, <<W_pass>>, DEFAULT_BAD_WORDS}

EngineInit ==
    /\ args \in {a \in Args : a.bad_words = <<>> /\ ~a.json /\ a.max_length = DefaultMaxLength}
    /\ pc = "words"
    /\ words \in EngineWordLists
    /\ bad_words = <<>> /\ analyzers = <<>>
    /\ ignore_patterns = args.ignore_patterns
    /\ include_paths = args.include_file
    /\ exclude_paths = args.exclude_file
    /\ WalkInit

\* line 40-49 applied to the list as given
EngineBuildBadWords ==
    /\ pc = "words"
    /\ bad_words' = build_bad_words(words)
    /\ pc' = "analyzers"
    /\ UNCHANGED <<args, words, analyzers, ignore_patterns, include_paths,
                   exclude_paths, pos, counter, result, accepted, skipped,
                   examined, cut, output, status>>

EngineNext ==
    \/ EngineBuildBadWords \/ BuildAnalyzers
    \/ SkipFile \/ HitLimit \/ ExamineFile \/ WalkDone

SpecEngine == EngineInit /\ [][EngineNext]_vars

(* ============================== properties ============================== *)
Returned == pc \in {"output", "exit", "done"}
FileAt(p) == Files[args.walk.first + p - 1]
YieldedAt(p) == Yielded(FileAt(p))
MatchesAny(globs, path) == \E i \in DOMAIN globs : fnmatch(path, globs[i])
Eligible(p) == can_analyze_file(include_paths, exclude_paths, PathAt(p))
EligibleCount == Cardinality({p \in 1..args.walk.n : Eligible(p)})
\* the walk returned early and left an eligible file unexamined
Truncated == cut /\ \E p \in 1..args.walk.n : Eligible(p) /\ p \notin examined
\* the Findings of result for line index i of the file at path
FindingsOf(path, i) ==
    LET Here(r) == r.file = path /\ r.line = i
    IN  SelectSeq(result, Here)
HasMatch(an, line) == \E s \in 1..(Len(line) + 1) : MatchEnd(an, line, s) # 0
\* text of the leftmost match
FirstMatch(an, line) ==
    LET s0 == CHOOSE s \in 1..(Len(line) + 1) :
                  /\ MatchEnd(an, line, s) # 0
                  /\ \A t \in 1..(s - 1) : MatchEnd(an, line, t) = 0
    IN  SubSeq(line, s0, MatchEnd(an, line, s0) - 1)
\* what the handlers of the examined files return, in walk order
RECURSIVE Gathered(_)
Gathered(p) ==
    IF p = 0 THEN <<>>
    ELSE Gathered(p - 1)
         \o (IF p \in examined
             THEN check_file_handler(PathAt(p), args.max_length, analyzers, ignore_patterns)
             ELSE <<>>)

\* C1: with a non-empty include list, a path that matches an include glob
\* is never rejected, whatever the exclude list says.
C1_IncludeWins ==
    \A p \in skipped : ~(include_paths # <<>> /\ MatchesAny(include_paths, PathAt(p)))

C4_TruncationDisclosed ==
    (pc \in {"exit", "done"} /\ Truncated) =>
        (output.kind = "report" /\ output.hit = "Yes")

\* C5: with an empty keyword list no detector is compiled and no file is
\* examined.
C5_EmptyKeywordsRejected ==
    (words = <<>> /\ pc # "words") => (analyzers = <<>> /\ examined = {})

\* C6: an examined file that fails to decode has no Finding in the result.
C6_UndecodableContributesNothing ==
    \A p \in examined :
        FileAt(p).undecodable => \A j \in DOMAIN result : result[j].file # PathAt(p)

\* C7: a line that a suppression pattern matches from position 0 has no
\* Finding; with no suppression pattern every detector that matches a line
\* within max_length has a Finding carrying its first match.
C7_WholeLineSuppression ==
    \A p \in examined : \A i \in DOMAIN YieldedAt(p) :
        LET line == YieldedAt(p)[i]
            hits == FindingsOf(PathAt(p), i - 1)
        IN  /\ (\E k \in DOMAIN ignore_patterns : re_match(ignore_patterns[k], line))
                  => hits = <<>>
            /\ (ignore_patterns = <<>> /\ Len(line) <= args.max_length) =>
                  \A d \in DOMAIN analyzers :
                      HasMatch(analyzers[d], line) =>
                          \E j \in DOMAIN hits : hits[j].target = FirstMatch(analyzers[d], line)

C7_Witness ==
    /\ pc = "done"
    /\ Len(ignore_patterns) > 1
    /\ \E p \in examined : \E i \in DOMAIN YieldedAt(p) :
           /\ Len(YieldedAt(p)[i]) <= args.max_length
           /\ \E d \in DOMAIN analyzers : HasMatch(analyzers[d], YieldedAt(p)[i])
           /\ ~re_match(ignore_patterns[1], YieldedAt(p)[i])
           /\ re_match(ignore_patterns[2], YieldedAt(p)[i])

\* C8: a completed run exits non-zero exactly when the Finding list is
\* non-empty.
C8_ExitContract ==
    pc = "done" => (status \in {0, 1} /\ (status # 0 <=> result # <<>>))

C8_Witness ==
    /\ pc = "done" /\ status = 1 /\ Len(result) = 1
    /\ output.kind = "report"

\* C9: per line read, each of the two detectors contributes one Finding
\* (first match, zero-based line index) if it matches and the line is
\* neither over max_length nor suppressed, and nothing otherwise; the
\* Findings of the two detectors are both kept, in detector order.
C9_FindingMultiplicity ==
    \A p \in examined :
        /\ Len(analyzers) = 2
        /\ \A i \in DOMAIN YieldedAt(p) :
              LET line == YieldedAt(p)[i]
                  One(d) == IF HasMatch(analyzers[d], line)
                            THEN <<[file |-> PathAt(p),
                                    target |-> FirstMatch(analyzers[d], line),
                                    line |-> i - 1,
                                    string |-> strip(line)]>>
                            ELSE <<>>
              IN  FindingsOf(PathAt(p), i - 1) =
                      IF \/ Len(line) > args.max_length
                         \/ check_exclude_pattern(ignore_patterns, line)
                      THEN <<>>
                      ELSE One(1) \o One(2)

C9_Witness ==
    /\ pc = "done"
    /\ \E p \in examined : \E i \in DOMAIN YieldedAt(p) :
           Len(FindingsOf(PathAt(p), i - 1)) = 2
    /\ \E p \in examined : \E i \in DOMAIN YieldedAt(p) :
           /\ \E d \in DOMAIN analyzers : Len(findall(analyzers[d], YieldedAt(p)[i])) > 1
           /\ Len(FindingsOf(PathAt(p), i - 1)) = 1
    /\ \E p \in examined : \E i \in DOMAIN YieldedAt(p) :
           /\ Len(YieldedAt(p)[i]) > args.max_length
           /\ \E d \in DOMAIN analyzers : HasMatch(analyzers[d], YieldedAt(p)[i])
           /\ FindingsOf(PathAt(p), i - 1) = <<>>

\* C10: for max_files >= 0, 'Hit Upper Limit? Yes' is printed only when the
\* walk was cut short with an eligible file left unexamined.
C10_NoSpuriousFlag ==
    (args.max_checks >= 0 /\ output.kind = "report" /\ output.hit = "Yes") => Truncated
====
